---- MODULE Spec2Model ----
(***************************************************************************)
(* The conversational command dispatcher of core/telegram/defineCommand:   *)
(* the per (command, chat) dispatch lock, the middleware chain, the        *)
(* argument-collection turns, the execution callback, the cleanup hook and *)
(* the deletion of downloaded temp files.                                  *)
(*                                                                         *)
(* Every `await` of the source is a point where another handler can run,   *)
(* so each async function is cut into one action per await.  Texts are     *)
(* sequences of one-character strings, so that prefix tests and parseInt   *)
(* are computed and not assumed.                                           *)
(***************************************************************************)
EXTENDS Integers, Sequences, FiniteSets, TLC

\* ------------------------------------------------------------------ bounds
\* handler activations (trigger messages / dispatchCommand calls) in one run
MaxInv == 2
\* chats that send messages
NumChats == 2
\* distinct message_id values a trigger message can carry
NumMsgIds == 2
\* message callbacks that can be suspended in a file download at one time
MaxDownloads == 1
\* buttons made by button builders in one run
MaxButtons == 1
\* the passes of setupTGCommands that end in a failed setMyCommands
MaxRetries == 2

Invs == 1..MaxInv
Chats == 1..NumChats
MsgIds == 1..NumMsgIds

\* ------------------------------------------------------------------- texts
NoText == <<>>
SKIP == <<"/", "s", "k", "i", "p">>
YES == <<"/", "y", "e", "s">>
NO == <<"/", "n", "o">>
SLASH == <<"/">>
NOPE == <<"/", "n", "o", "p", "e">>
OtherCommand == <<"/", "x">>
T_true == <<"t", "r", "u", "e">>
T_7 == <<"7">>
T_4a == <<"4", "a">>
T_a == <<"a">>

StartsWith(s, p) == Len(s) >= Len(p) /\ SubSeq(s, 1, Len(p)) = p

Digits == {"0", "1", "2", "3", "4", "5", "6", "7", "8", "9"}

DigitVal(c) ==
  CASE c = "0" -> 0 [] c = "1" -> 1 [] c = "2" -> 2 [] c = "3" -> 3 [] c = "4" -> 4
    [] c = "5" -> 5 [] c = "6" -> 6 [] c = "7" -> 7 [] c = "8" -> 8 [] c = "9" -> 9

\* the number of leading decimal digits of s
RECURSIVE LeadingDigits(_)
LeadingDigits(s) ==
  IF s = <<>> \/ Head(s) \notin Digits THEN 0 ELSE 1 + LeadingDigits(Tail(s))

RECURSIVE DigitsValue(_, _)
DigitsValue(s, n) ==
  IF n = 0 THEN 0 ELSE 10 * DigitsValue(s, n - 1) + DigitVal(s[n])

\* ------------------------------------------------------------------ values
\* a JavaScript value held by an argument object
StrV(s) == [t |-> "string", s |-> s, n |-> 0, b |-> FALSE]
NumV(n) == [t |-> "number", s |-> <<>>, n |-> n, b |-> FALSE]
NaNV == [t |-> "NaN", s |-> <<>>, n |-> 0, b |-> FALSE]
BoolV(b) == [t |-> "boolean", s |-> <<>>, n |-> 0, b |-> b]
Undefined == [t |-> "undefined", s |-> <<>>, n |-> 0, b |-> FALSE]

\* parseInt(value): the leading decimal integer of the text, NaN without one
ParseInt(s) ==
  LET body == IF s # <<>> /\ Head(s) \in {"-", "+"} THEN Tail(s) ELSE s
      k == LeadingDigits(body)
      v == DigitsValue(body, k)
  IN  IF k = 0 THEN NaNV
      ELSE IF s # <<>> /\ Head(s) = "-" THEN NumV(0 - v) ELSE NumV(v)

\* getArgsValue: boolean by the literal "true", number by parseInt, else as is
getArgsValue(type, value) ==
  IF type = "boolean" THEN BoolV(value = T_true)
  ELSE IF type = "number" THEN ParseInt(value)
  ELSE StrV(value)

\* an object as a function from its own keys
EmptyObj == [k \in {} |-> Undefined]
Put(o, key, v) == [k \in (DOMAIN o) \cup {key} |-> IF k = key THEN v ELSE o[k]]
\* { ...a, ...b }
Spread(a, b) == [k \in (DOMAIN a) \cup (DOMAIN b) |-> IF k \in DOMAIN b THEN b[k] ELSE a[k]]
Get(o, key) == IF key \in DOMAIN o THEN o[key] ELSE Undefined

\* ---------------------------------------------------------------- registry
\* one entry of TGCommandArgs: template says whether templateFilepath is set
Arg(name, type, required, template) ==
  [name |-> name, type |-> type, required |-> required, template |-> template]

CommandNames == {"start", "report", "import", "rename", "upload"}

\* the commands map after the defineTGCommand calls of start-up:
\* args in declaration order, nmw middlewares, cleanup whether a hook is declared,
\* text the trigger text "/<command>"
commandsAtStart ==
  [c \in CommandNames |->
     CASE c = "start" ->
            [args |-> <<>>, nmw |-> 0, cleanup |-> FALSE,
             text |-> <<"/", "s", "t", "a", "r", "t">>]
       [] c = "report" ->
            [args |-> << Arg("limit", "number", FALSE, FALSE),
                         Arg("full", "boolean", TRUE, FALSE) >>,
             nmw |-> 2, cleanup |-> TRUE,
             text |-> <<"/", "r", "e", "p", "o", "r", "t">>]
       [] c = "import" ->
            [args |-> << Arg("sheet", "file", TRUE, TRUE),
                         Arg("extra", "file", FALSE, TRUE) >>,
             nmw |-> 0, cleanup |-> TRUE,
             text |-> <<"/", "i", "m", "p", "o", "r", "t">>]
       [] c = "rename" ->
            [args |-> << Arg("title", "string", TRUE, FALSE) >>,
             nmw |-> 1, cleanup |-> FALSE,
             text |-> <<"/", "r", "e", "n", "a", "m", "e">>]
       [] c = "upload" ->
            [args |-> << Arg("note", "string", FALSE, FALSE),
                         Arg("file", "file", TRUE, FALSE) >>,
             nmw |-> 0, cleanup |-> TRUE,
             text |-> <<"/", "u", "p", "l", "o", "a", "d">>]]

\* ------------------------------------------------------------ inline query
\* match?.[1]: absent for "/name", else the "?k=v&..." group as parsed by
\* URLSearchParams into its sequence of <<key, value>> pairs
NoMatch == [has |-> FALSE, params |-> <<>>]
Query(params) == [has |-> TRUE, params |-> params]

\* "/name", "/name?", "/name?limit=4a&zz=7", "/name?full=7&limit=a",
\* "/name?title=&full=true&title=a" and "/name?extra=a"
Matches ==
  { NoMatch,
    Query(<<>>),
    Query(<< <<"limit", T_4a>>, <<"zz", T_7>> >>),
    Query(<< <<"full", T_7>>, <<"limit", T_a>> >>),
    Query(<< <<"title", <<>> >>, <<"full", T_true>>, <<"title", T_a>> >>),
    Query(<< <<"extra", T_a>> >>) }

\* URLSearchParams.get: the first value of the key, or null
RECURSIVE ParamsGet(_, _)
ParamsGet(params, key) ==
  IF params = <<>> THEN [found |-> FALSE, value |-> <<>>]
  ELSE IF Head(params)[1] = key THEN [found |-> TRUE, value |-> Head(params)[2]]
  ELSE ParamsGet(Tail(params), key)

RECURSIVE match2ArgsFrom(_, _, _)
match2ArgsFrom(commandArgs, params, n) ==
  IF n = 0 THEN EmptyObj
  ELSE LET rest == match2ArgsFrom(commandArgs, params, n - 1)
           got == ParamsGet(params, commandArgs[n].name)
       IN  IF ~got.found THEN rest
           ELSE Put(rest, commandArgs[n].name, getArgsValue(commandArgs[n].type, got.value))

match2Args(commandArgs, match) ==
  IF commandArgs = <<>> \/ ~match.has THEN EmptyObj
  ELSE match2ArgsFrom(commandArgs, match.params, Len(commandArgs))

filterCommandArgs_Optional(args, matchedArgs) ==
  SelectSeq(args, LAMBDA a : Get(matchedArgs, a.name) = Undefined /\ ~a.required)

filterCommandArgs_All(args, matchedArgs) == args

\* filterCommandArgs: the declared arguments with no matched value, in order
filterCommandArgs(args, matchedArgs) ==
  SelectSeq(args, LAMBDA a : Get(matchedArgs, a.name) = Undefined)

\* ---------------------------------------------------------------- messages
NoDoc == [uid |-> "", name |-> ""]
Docs == {[uid |-> "u1", name |-> "a.xlsx"], [uid |-> "u2", name |-> "b.xlsx"]}

Texts == {SKIP, YES, NO, NOPE, OtherCommand, T_true, T_7, T_4a}

\* what a message of a chat carries: text, a document, or neither (a photo)
Bodies ==
  {[text |-> t, doc |-> NoDoc] : t \in Texts}
    \cup {[text |-> NoText, doc |-> d] : d \in Docs}
    \cup {[text |-> NoText, doc |-> NoDoc]}

\* path.resolve(`temp/${file_unique_id}-${file_name}`)
Filepath(doc) == <<"temp/", doc.uid, "-", doc.name>>

Resolve == [act |-> "resolve", set |-> FALSE, val |-> Undefined, err |-> ""]
SetTo(v) == [act |-> "resolve", set |-> TRUE, val |-> v, err |-> ""]
Reject(e) == [act |-> "reject", set |-> FALSE, val |-> Undefined, err |-> e]
Download == [act |-> "download", set |-> FALSE, val |-> Undefined, err |-> ""]

\* /^\/(yes|no)/.test(text)
IsYesNo(text) == StartsWith(text, YES) \/ StartsWith(text, NO)

YesNoValue_Truthy(text) == BoolV(IsYesNo(text))

\* (newMsg.text === '/yes')
YesNoValue(text) == BoolV(text = YES)

callback_SkipsRequired(type, required, body) ==
  IF body.text = SKIP THEN Resolve
  ELSE IF IsYesNo(body.text) THEN
         IF type # "boolean" THEN Reject("Boolean type required")
         ELSE SetTo(YesNoValue(body.text))
  ELSE IF StartsWith(body.text, SLASH) THEN Reject("New command detected")
  ELSE IF type = "file" THEN
         IF body.doc = NoDoc THEN Reject("File is required") ELSE Download
  ELSE IF body.text = NoText THEN Reject("Text is required")
  ELSE SetTo(getArgsValue(type, body.text))

callback_SkipKeepsText(type, required, body) ==
  IF body.text = SKIP /\ ~required THEN SetTo(StrV(body.text))
  ELSE IF IsYesNo(body.text) THEN
         IF type # "boolean" THEN Reject("Boolean type required")
         ELSE SetTo(YesNoValue(body.text))
  ELSE IF StartsWith(body.text, SLASH) THEN Reject("New command detected")
  ELSE IF type = "file" THEN
         IF body.doc = NoDoc THEN Reject("File is required") ELSE Download
  ELSE IF body.text = NoText THEN Reject("Text is required")
  ELSE SetTo(getArgsValue(type, body.text))

\* the synchronous part of the turn's message callback, for a message of the
\* turn's own chat
callback(type, required, body) ==
  IF body.text = SKIP /\ ~required THEN Resolve
  ELSE IF IsYesNo(body.text) THEN
         IF type # "boolean" THEN Reject("Boolean type required")
         ELSE SetTo(YesNoValue(body.text))
  ELSE IF StartsWith(body.text, SLASH) THEN Reject("New command detected")
  ELSE IF type = "file" THEN
         IF body.doc = NoDoc THEN Reject("File is required") ELSE Download
  ELSE IF body.text = NoText THEN Reject("Text is required")
  ELSE SetTo(getArgsValue(type, body.text))

\* ---------------------------------------------------- callback query data
\* the position of the first ":" of s, 0 without one
RECURSIVE IndexOfColon(_, _)
IndexOfColon(s, n) ==
  IF n > Len(s) THEN 0 ELSE IF s[n] = ":" THEN n ELSE IndexOfColon(s, n + 1)

\* query.data.split(':')[0]
SplitCommand(data) ==
  LET i == IndexOfColon(data, 1) IN IF i = 0 THEN data ELSE SubSeq(data, 1, i - 1)

\* query.data.split(':')[1]; the empty text stands for undefined as well,
\* both being falsy in `if (argsKey)`
SplitArgsKey(data) ==
  LET i == IndexOfColon(data, 1) IN
  IF i = 0 THEN <<>> ELSE SplitCommand(SubSeq(data, i + 1, Len(data)))

\* the value null, which JSON.parse can return
NullV == [t |-> "null", s |-> <<>>, n |-> 0, b |-> FALSE]

\* JSON.stringify of a value of an argument object: NaN has no JSON form and
\* is written as null
ToJson(v) == IF v = NaNV THEN NullV ELSE v

\* safeStringify(params): the members in key order, a member whose value is
\* undefined left out
safeStringify(params, keys) ==
  LET present == SelectSeq(keys, LAMBDA k : Get(params, k) # Undefined)
  IN  [n \in 1..Len(present) |-> <<present[n], ToJson(params[present[n]])>>]

\* Object.assign(parserArgs, JSON.parse(cacheParams))
RECURSIVE JsonParseInto(_, _)
JsonParseInto(o, json) ==
  IF json = <<>> THEN o
  ELSE JsonParseInto(Put(o, Head(json)[1], Head(json)[2]), Tail(json))

\* what redis holds under a key: the value, and the seconds of the EX
\* argument of the redis.set that wrote it, "none" for a set without EX
Stored(value, ex) == [value |-> value, ex |-> ex]

\* one entry of TGQueryArgs
QArg(name, type, required) == [name |-> name, type |-> type, required |-> required]

Repeat(c, n) == [i \in 1..n |-> c]

Pay == <<"p", "a", "y">>
Opt == <<"o", "p", "t">>
Menu == <<"m", "e", "n", "u">>
Q55 == Repeat("q", 64 - 9)
Q56 == Repeat("q", 64 - 9 + 1)
Q65 == Repeat("s", 64 + 1)
QColon == <<"a", ":", "b">>
Unregistered == <<"n", "o", "n", "e">>

\* the definitions of start-up, and the ones of a module loaded while the
\* bot runs, in the order of its defineTGQueryCallback statements
StartQueryIds == {Pay, Opt, Menu}
LateQueries == <<Q55, Q56, Q65, QColon>>
LateQueryIds == {LateQueries[n] : n \in 1..Len(LateQueries)}
QueryIds == StartQueryIds \cup LateQueryIds

\* the TGQueryCallbackConfig of a query id: hasArgs whether config.args is
\* given, args its entries in key order, cleanup whether a hook is declared
QueryConfig(q) ==
  CASE q = Pay -> [hasArgs |-> TRUE, cleanup |-> TRUE,
                   args |-> << QArg("amount", "number", TRUE),
                               QArg("note", "string", FALSE) >>]
    [] q = Opt -> [hasArgs |-> TRUE, cleanup |-> FALSE,
                   args |-> << QArg("flag", "boolean", FALSE) >>]
    [] q = Menu -> [hasArgs |-> FALSE, cleanup |-> TRUE, args |-> <<>>]
    [] q = Q65 -> [hasArgs |-> FALSE, cleanup |-> FALSE, args |-> <<>>]
    [] OTHER -> [hasArgs |-> TRUE, cleanup |-> FALSE, args |-> <<>>]

\* nanoid(8)
NanoIds ==
  {<<"a", "b", "c", "d", "1", "2", "3", "4">>, <<"Z", "y", "_", "-", "0", "9", "x", "Q">>}

\* the argument objects handed to a button builder
BuilderArgs ==
  { EmptyObj,
    Put(Put(EmptyObj, "amount", NumV(5)), "note", StrV(T_a)),
    Put(EmptyObj, "note", StrV(T_a)),
    Put(EmptyObj, "amount", NaNV),
    Put(EmptyObj, "flag", BoolV(TRUE)) }

\* query.data of a click: undefined, or a text
NoData == [has |-> FALSE, text |-> <<>>]
Data(text) == [has |-> TRUE, text |-> text]

Payload(q, key) == q \o <<":">> \o key

ClickData ==
  {NoData, Data(<<>>), Data(<<":", "k">>), Data(Unregistered)}
    \cup {Data(q) : q \in {Menu, Pay, Q56}}
    \cup {Data(Payload(q, k)) : q \in {Pay, Opt, QColon}, k \in NanoIds}

\* -------------------------------------------------------------------- state
VARIABLES
  commands,   \* the commands map: command name -> definition
  inv,        \* the activations of the onText handler, by index
  lock,       \* redis: the (command, chat) pairs whose commandLock key is present
  argsFile,   \* redis: message id -> the path stored under argsFile(msgId)
  temp,       \* the files present in the temp directory
  downloads,  \* message callbacks suspended in their file branch
  window,     \* history: dispatchCommand calls per (command, chat) since its lock was last absent
  inputs,     \* what the chats send in this run: commands, inline queries, message bodies
  queryCallbacks,  \* the queryCallbacks map: query id -> definition
  builders,   \* what defineTGQueryCallback gave for a query id: nothing yet, a builder, a button, a throw
  cbParams,   \* redis: (query id, key) -> the record stored under cbParams(query, key)
  buttons,    \* history: the buttons handed out so far
  lastBuild,  \* history: the latest button builder call
  click,      \* the activation of the callback_query handler
  job,        \* the job of the rate limiter: one proxied call and its retries
  tpl,        \* the call of a template helper of the client
  now,        \* the time, in milliseconds
  limiter,    \* client facade -> its rateLimiter: settings, queue, jobs in flight
  textRegexpCallbacks,  \* the text listeners of botClient.bot, as the command names of their patterns
  sync,       \* the call of setupTGCommands, and its recursive retries
  trig        \* history: the definitions of a command and the trigger text after the latest

queryVars == <<queryCallbacks, builders, cbParams, buttons, lastBuild, click>>
proxyVars == <<now, limiter, textRegexpCallbacks, trig, sync>>
limiterVars == <<job, tpl, proxyVars>>

vars == <<commands, inv, lock, argsFile, temp, downloads, window, inputs,
          queryCallbacks, builders, cbParams, buttons, lastBuild, click, job, tpl,
          now, limiter, textRegexpCallbacks, trig, sync>>

NoPath == <<>>

\* an activation that has not happened yet.  The fields after `path` are
\* history: they are written and never read by the actions.
IdleInv ==
  [pc |-> "idle", command |-> "", chat |-> 0, msgId |-> 0, match |-> NoMatch,
   args |-> EmptyObj, pending |-> <<>>, idx |-> 0, result |-> EmptyObj,
   turn |-> "none", listen |-> 0, mw |-> 0, path |-> NoPath,
   dispatched |-> FALSE, prompts |-> <<>>, settled |-> {}, abortedAt |-> 0,
   abortMsg |-> FALSE, abortThrew |-> FALSE, abortSent |-> 0, calls |-> 0,
   cleanups |-> 0, downloaded |-> {}, leaked |-> {}, rejectedAt |-> 0,
   collected |-> EmptyObj, heard |-> 0, tidy |-> TRUE, errorAt |-> 0,
   yesno |-> EmptyObj, skipAt |-> 0]

\* the state after the module has been loaded and the commands defined
Loaded ==
  /\ commands = commandsAtStart
  /\ lock = {}
  /\ argsFile = [m \in MsgIds |-> NoPath]
  /\ temp = {}
  /\ downloads = {}
  /\ window = [k \in CommandNames \X Chats |-> 0]

\* a static button, or one made by a builder from the arguments it kept
Button(q, key, params) ==
  [query |-> q, key |-> key, args |-> params,
   payload |-> IF key = <<>> THEN q ELSE Payload(q, key)]

\* no click handled yet.  built (the click is on a button a builder had
\* returned), alerts, acks, calls, callArgs, cleanups, absent and logged are
\* history
IdleClick ==
  [pc |-> "idle", data |-> NoData, built |-> FALSE, command |-> <<>>, argsKey |-> <<>>,
   args |-> EmptyObj, absent |-> FALSE, alerts |-> 0, alertMsg |-> "", acks |-> 0,
   calls |-> 0, callArgs |-> EmptyObj, cleanups |-> 0, logged |-> 0]

NoBuild == [called |-> FALSE, query |-> <<>>, args |-> EmptyObj, threw |-> FALSE,
            stored |-> EmptyObj, handed |-> {}]

\* the callback registry after the defineTGQueryCallback calls of start-up
QueryLoaded ==
  /\ queryCallbacks = [q \in StartQueryIds |-> QueryConfig(q)]
  /\ builders = [q \in QueryIds |->
                   IF q \notin StartQueryIds THEN "none"
                   ELSE IF QueryConfig(q).hasArgs THEN "builder" ELSE "static"]
  /\ cbParams = EmptyObj
  /\ buttons = {Button(q, <<>>, EmptyObj) : q \in {p \in StartQueryIds : ~QueryConfig(p).hasArgs}}
  /\ lastBuild = NoBuild
  /\ click = IdleClick

NoErr == [code |-> "", message |-> <<>>]

\* no proxied call made yet.  attempts, failures, warnings, lastErr are history
IdleJob ==
  [pc |-> "idle", classifier |-> "default", retryCount |-> 0, wait |-> 0,
   attempts |-> 0, failures |-> 0, warnings |-> 0, lastErr |-> NoErr,
   outcome |-> "none", rejectErr |-> NoErr]

\* no template helper called yet.  failed (the step that threw) and logged are
\* history
IdleTpl ==
  [pc |-> "idle", fn |-> "", data |-> FALSE, failed |-> "", result |-> "none",
   outcome |-> "none", logged |-> 0]

\* the client facades constructed in one run
NumFacades == 2
Facades == 1..NumFacades

\* the settings of a limiter: those of TelegramBotClient, and a limiter of
\* spacing 100 ms that runs one job at a time
telegramSettings == [minTime |-> 500, maxConcurrent |-> 2]
Settings == {telegramSettings, [minTime |-> 100, maxConcurrent |-> 1]}

\* the Bottleneck a RateLimiterControl object creates for itself: next is
\* the earliest time its next job may start, queue the jobs received and not
\* started, running the jobs in flight; started is history, the submission
\* and start time of every job started
NewLimiter(settings) ==
  [minTime |-> settings.minTime, maxConcurrent |-> settings.maxConcurrent,
   next |-> 0, queue |-> <<>>, running |-> 0, started |-> <<>>]

\* the listeners that the defineTGCommand calls of start-up have attached
ListenersAtStart == <<"start", "report", "import", "rename", "upload">>

\* no trigger text seen since the latest definition.  defines counts the
\* defineTGCommand calls for the command, settled says that the latest call
\* found the earlier listener attached and no listener job waiting
NoTrig == [defines |-> 0, settled |-> FALSE, fired |-> FALSE, handlers |-> 0,
           def |-> Undefined]

\* the commands map in insertion order, as `for (const [command, config] of
\* commands)` goes through it
commandOrder == <<"start", "report", "import", "rename", "upload">>

\* setupTGCommands not called yet: setup is the set of commands that declare a
\* setup hook, dir whether the temp directory exists; hooks (the calls of each
\* setup hook), raised, passes and published are history
IdleSync ==
  [pc |-> "idle", setup |-> {}, dir |-> FALSE, pos |-> 0, newCommands |-> <<>>,
   hooks |-> [c \in CommandNames |-> 0], raised |-> {}, passes |-> 0,
   published |-> <<>>, publishes |-> 0]

ProxyAtRest ==
  /\ now = 0
  /\ limiter = [f \in Facades |-> NewLimiter(telegramSettings)]
  /\ textRegexpCallbacks = ListenersAtStart
  /\ trig = NoTrig

ProxyLoaded == ProxyAtRest /\ sync = IdleSync

LimiterLoaded == job = IdleJob /\ tpl = IdleTpl /\ ProxyLoaded

\* concurrent activations: up to MaxInv handlers in flight, over the replies
\* that drive a conversation to each of its ends
ConcurrentBodies ==
  {[text |-> SKIP, doc |-> NoDoc], [text |-> T_7, doc |-> NoDoc],
   [text |-> NoText, doc |-> [uid |-> "u1", name |-> "a.xlsx"]]}

Init ==
  /\ Loaded
  /\ QueryLoaded
  /\ LimiterLoaded
  /\ inv = [i \in Invs |-> IdleInv]
  /\ inputs = [commands |-> {"start", "rename", "import"},
               bodies |-> ConcurrentBodies, matches |-> {NoMatch},
               flights |-> MaxDownloads]

\* one activation in isolation, over every message body and inline query
InitOne ==
  /\ Loaded
  /\ QueryLoaded
  /\ LimiterLoaded
  /\ inv = [i \in Invs |-> IF i = 1 THEN IdleInv ELSE [IdleInv EXCEPT !.pc = "unused"]]
  /\ inputs = [commands |-> CommandNames, bodies |-> Bodies, matches |-> Matches,
               flights |-> MaxDownloads]

\* ------------------------------------------------- dispatchCommand, by await
\* catch: logger.error, then the finally block calls unlinkArgsFile, which
\* issues redis.get
Catch(r) == [r EXCEPT !.pc = "finGet"]

\* leaving the try block normally: the finally block
Finally(r) == [r EXCEPT !.pc = "finGet"]

\* one iteration of the for loop of getCommandArgs up to its await: register
\* the message callback, then send the prompt; past the last argument the
\* function returns result and dispatchCommand spreads it into ctx.args
EnterTurn(r) ==
  IF r.idx > Len(r.pending)
  THEN [r EXCEPT !.pc = "exec", !.turn = "none",
                 !.args = Spread(r.args, r.result), !.collected = r.result]
  ELSE LET a == r.pending[r.idx] IN
       IF a.type = "file" /\ ~a.template
       THEN Catch([r EXCEPT !.listen = r.idx, !.turn = "none", !.rejectedAt = r.idx])
       ELSE [r EXCEPT !.pc = "wait", !.turn = "waiting", !.listen = r.idx,
                      !.prompts = Append(@, a.name)]

AfterTurn_SameTurnAgain(r) ==
  IF r.turn = "resolved" THEN EnterTurn(r) ELSE Catch(r)

\* the await of the turn's promise
AfterTurn(r) ==
  IF r.turn = "resolved" THEN EnterTurn([r EXCEPT !.idx = @ + 1]) ELSE Catch(r)

\* ctx.args = {...ctx.args, ...(await getCommandArgs(..., filterCommandArgs(...)))}
BeginCollection(r, def) ==
  EnterTurn([r EXCEPT !.pending = filterCommandArgs(def.args, r.args),
                      !.idx = 1, !.result = EmptyObj])

\* dispatchCommand up to its first await
Dispatch(r, cmds) ==
  IF r.command \notin DOMAIN cmds THEN [r EXCEPT !.pc = "returned"]
  ELSE LET def == cmds[r.command]
           r1 == [r EXCEPT !.dispatched = TRUE,
                           !.args = match2Args(def.args, r.match)]
       IN  IF def.nmw > 0 THEN [r1 EXCEPT !.pc = "mw", !.mw = 1]
           ELSE BeginCollection(r1, def)

\* what a middleware did before its promise settled: the abort callback not
\* called, called without a message, or called with one; returned or threw
MwOutcomes == [abort : {"none", "plain", "msg"}, throws : BOOLEAN]

AfterMiddleware_NoAbortCheck(r, def, out) ==
  LET r1 == [r EXCEPT !.abortedAt = IF out.abort # "none" THEN r.mw ELSE @,
                      !.abortMsg = (out.abort = "msg"),
                      !.abortThrew = (out.abort # "none" /\ out.throws)]
  IN  IF out.throws THEN Catch(r1)
      ELSE IF r.mw < def.nmw THEN [r1 EXCEPT !.mw = @ + 1]
      ELSE IF out.abort = "msg" THEN [r1 EXCEPT !.pc = "abortSend", !.abortSent = @ + 1]
      ELSE IF out.abort = "plain" THEN Catch(r1)
      ELSE BeginCollection(r1, def)

\* the loop body after `await middleware(ctx, abort)`
AfterMiddleware(r, def, out) ==
  LET r1 == [r EXCEPT !.abortedAt = IF out.abort # "none" THEN r.mw ELSE @,
                      !.abortMsg = (out.abort = "msg"),
                      !.abortThrew = (out.abort # "none" /\ out.throws)]
  IN  IF out.throws THEN Catch(r1)
      ELSE IF out.abort = "msg" THEN [r1 EXCEPT !.pc = "abortSend", !.abortSent = @ + 1]
      ELSE IF out.abort = "plain" THEN Catch(r1)
      ELSE IF r.mw < def.nmw THEN [r1 EXCEPT !.mw = @ + 1]
      ELSE BeginCollection(r1, def)

\* `await callback(ctx)` settled, then `await cleanup?.(ctx)` is evaluated
AfterCallback(r, def, ok) ==
  IF ~ok THEN Catch(r)
  ELSE IF def.cleanup THEN [r EXCEPT !.pc = "cleanup", !.cleanups = @ + 1]
  ELSE Finally(r)

\* dispatchCommand has returned, or thrown out of its finally block
Leave(r, how, files) == [r EXCEPT !.pc = how, !.leaked = r.downloaded \cap files]

\* done(err?): settle the turn's promise (a settled promise stays as it is),
\* then remove the callback of turn n
Done(r, n, how) ==
  LET first == r.pc = "wait" /\ r.idx = n /\ r.turn = "waiting" IN
  [r EXCEPT !.turn = IF first THEN how ELSE @,
            !.listen = IF @ = n THEN 0 ELSE @,
            !.settled = IF first THEN @ \cup {n} ELSE @,
            !.rejectedAt = IF first /\ how = "rejected" THEN n ELSE @]

\* the message callback of a listening turn on a message of its chat
OnMessage(r, body) ==
  LET a == r.pending[r.listen]
      out == callback(a.type, a.required, body)
  IN  IF out.act = "download" THEN r
      ELSE IF out.act = "reject" THEN Done(r, r.listen, "rejected")
      ELSE Done(IF out.set THEN [r EXCEPT !.result = Put(@, a.name, out.val)] ELSE r,
                r.listen, "resolved")

Hears_AnyChat(r, chat) == r.listen > 0

\* `if (newMsg.chat.id !== msg.chat.id) return`: the callback of a turn acts on
\* the messages of its own chat only
Hears(r, chat) == r.listen > 0 /\ r.chat = chat

\* ---- history of the replies a turn receives, kept apart from the code ----
PlainText(body) == body.text # NoText /\ ~StartsWith(body.text, SLASH)

\* the reply gives the argument a value
SuppliesValue(a, body) ==
  IF a.type = "file" THEN body.doc # NoDoc
  ELSE IF a.type = "boolean" THEN body.text \in {YES, NO} \/ PlainText(body)
  ELSE PlainText(body)

\* the reply the user is asked for: /skip for an optional argument, a value
\* for a required one
Expected(a, body) == IF a.required THEN SuppliesValue(a, body) ELSE body.text = SKIP

\* the replies that end a turn in error: /yes or /no for a non-boolean
\* argument, another command, no document for a file argument, no text for
\* another argument
ErrorReply(a, body) ==
  \/ body.text \in {YES, NO} /\ a.type # "boolean"
  \/ StartsWith(body.text, SLASH) /\ body.text \notin {YES, NO, SKIP}
  \/ body.text = NoText /\ a.type = "file" /\ body.doc = NoDoc
  \/ body.text = NoText /\ a.type # "file"

Observe(r, body) ==
  LET a == r.pending[r.listen] IN
  [r EXCEPT !.heard = r.listen,
            !.tidy = @ /\ r.heard # r.listen /\ Expected(a, body),
            !.errorAt = IF @ = 0 /\ ErrorReply(a, body) THEN r.listen ELSE @,
            !.yesno = IF body.text \in {YES, NO} /\ a.type = "boolean"
                      THEN Put(@, a.name, StrV(body.text)) ELSE @,
            !.skipAt = IF @ = 0 /\ body.text = SKIP /\ a.required THEN r.listen ELSE @]

\* bot.emit('message', msg): every registered callback sees the message
Emit(chat, body) ==
  [i \in Invs |->
     IF Hears(inv[i], chat) THEN OnMessage(Observe(inv[i], body), body) ELSE inv[i]]

Started(chat, body) ==
  { [i |-> i, n |-> inv[i].listen, doc |-> body.doc, stage |-> "write"] :
      i \in { j \in Invs : /\ Hears(inv[j], chat)
                           /\ LET a == inv[j].pending[inv[j].listen]
                              IN  callback(a.type, a.required, body).act = "download" } }

\* ------------------------------------------------------------------ actions
\* a message that is no trigger of a registered command arrives
Message(chat, body) ==
  /\ body \in inputs.bodies
  /\ \E i \in Invs : Hears(inv[i], chat)
  /\ Cardinality(downloads \cup Started(chat, body)) <= inputs.flights
  /\ inv' = Emit(chat, body)
  /\ downloads' = downloads \cup Started(chat, body)
  /\ UNCHANGED <<queryVars, limiterVars, commands, inputs, lock, argsFile, temp, window>>

\* the text "/<command>" or "/<command>?<query>" arrives: the message event is
\* emitted first, then the onText callback starts and issues redis.get
Trigger(i, command, chat, msgId, match) ==
  /\ inv[i].pc = "idle"
  /\ \A j \in Invs : j < i => inv[j].pc # "idle"
  /\ chat <= 1 + Cardinality({inv[j].chat : j \in 1..(i - 1)})
  /\ msgId <= 1 + Cardinality({inv[j].msgId : j \in 1..(i - 1)})
  /\ command \in DOMAIN commands
  /\ command \in inputs.commands
  /\ match \in inputs.matches
  /\ LET text == commands[command].text \o (IF match.has THEN <<"?">> ELSE <<>>)
         body == [text |-> text, doc |-> NoDoc]
     IN  /\ inv' = [Emit(chat, body) EXCEPT
                      ![i] = [IdleInv EXCEPT !.pc = "lockGet", !.command = command,
                                             !.chat = chat, !.msgId = msgId,
                                             !.match = match]]
         /\ downloads' = downloads \cup Started(chat, body)
  /\ UNCHANGED <<queryVars, limiterVars, commands, inputs, lock, argsFile, temp, window>>

commandLock_NoChat(command, chat) == <<command, 0>>

\* RedisKeys.tg.commandLock(command, msg.chat.id): the key of a command in a chat
commandLock(command, chat) == <<command, chat>>

\* `if (await redis.get(key)) return`
LockGet(i) ==
  /\ inv[i].pc = "lockGet"
  /\ inv' = [inv EXCEPT ![i].pc =
               IF commandLock(inv[i].command, inv[i].chat) \in lock THEN "ignored"
               ELSE "lockSet"]
  /\ UNCHANGED <<queryVars, limiterVars, commands, inputs, lock, argsFile, temp, downloads, window>>

\* `await redis.set(key, '1', 'EX', 2)`, then dispatchCommand is called
LockSet(i) ==
  /\ inv[i].pc = "lockSet"
  /\ lock' = lock \cup {commandLock(inv[i].command, inv[i].chat)}
  /\ window' = [window EXCEPT ![<<inv[i].command, inv[i].chat>>] = @ + 1]
  /\ inv' = [inv EXCEPT ![i] = Dispatch(inv[i], commands)]
  /\ UNCHANGED <<queryVars, limiterVars, commands, inputs, argsFile, temp, downloads>>

\* the lock key reaches the end of its TTL
LockExpire(command, chat) ==
  /\ commandLock(command, chat) \in lock
  /\ lock' = lock \ {commandLock(command, chat)}
  /\ window' = [window EXCEPT ![<<command, chat>>] = 0]
  /\ UNCHANGED <<queryVars, limiterVars, commands, inputs, inv, argsFile, temp, downloads>>

\* the running middleware settles
Middleware(i, out) ==
  /\ inv[i].pc = "mw"
  /\ inv' = [inv EXCEPT ![i] = AfterMiddleware(inv[i], commands[inv[i].command], out)]
  /\ UNCHANGED <<queryVars, limiterVars, commands, inputs, lock, argsFile, temp, downloads, window>>

\* `await botClient.sendMDMessage(chat, abortMsg)` settles either way, then
\* `throw new Error('Middleware aborted')` or the send's own rejection
AbortSent(i) ==
  /\ inv[i].pc = "abortSend"
  /\ inv' = [inv EXCEPT ![i] = Catch(inv[i])]
  /\ UNCHANGED <<queryVars, limiterVars, commands, inputs, lock, argsFile, temp, downloads, window>>

\* the promise of the current turn has settled
TurnSettled(i) ==
  /\ inv[i].pc = "wait"
  /\ inv[i].turn # "waiting"
  /\ inv' = [inv EXCEPT ![i] = AfterTurn(inv[i])]
  /\ UNCHANGED <<queryVars, limiterVars, commands, inputs, lock, argsFile, temp, downloads, window>>

\* the execution callback runs and settles
Execute(i, ok) ==
  /\ inv[i].pc = "exec"
  /\ inv' = [inv EXCEPT ![i] =
               AfterCallback([inv[i] EXCEPT !.calls = @ + 1], commands[inv[i].command], ok)]
  /\ UNCHANGED <<queryVars, limiterVars, commands, inputs, lock, argsFile, temp, downloads, window>>

\* the cleanup hook settles
Cleanup(i, ok) ==
  /\ inv[i].pc = "cleanup"
  /\ inv' = [inv EXCEPT ![i] = IF ok THEN Finally(inv[i]) ELSE Catch(inv[i])]
  /\ UNCHANGED <<queryVars, limiterVars, commands, inputs, lock, argsFile, temp, downloads, window>>

UnlinkGet_ReleasesLock(i) ==
  /\ inv[i].pc = "finGet"
  /\ inv' = [inv EXCEPT ![i] =
               IF argsFile[inv[i].msgId] = NoPath THEN Leave(inv[i], "returned", temp)
               ELSE [inv[i] EXCEPT !.pc = "finUnlink", !.path = argsFile[inv[i].msgId]]]
  /\ lock' = lock \ {commandLock(inv[i].command, inv[i].chat)}
  /\ UNCHANGED <<queryVars, limiterVars, commands, inputs, argsFile, temp, downloads, window>>

\* unlinkArgsFile: `await redis.get(argsFile(msgId))`, then fs.unlink is issued
UnlinkGet(i) ==
  /\ inv[i].pc = "finGet"
  /\ inv' = [inv EXCEPT ![i] =
               IF argsFile[inv[i].msgId] = NoPath THEN Leave(inv[i], "returned", temp)
               ELSE [inv[i] EXCEPT !.pc = "finUnlink", !.path = argsFile[inv[i].msgId]]]
  /\ UNCHANGED <<queryVars, limiterVars, commands, inputs, lock, argsFile, temp, downloads, window>>

\* `await fs.unlink(filepath)`: rejects with ENOENT when the file is not there,
\* and nothing between the finally block and the caller catches it
Unlink(i) ==
  /\ inv[i].pc = "finUnlink"
  /\ temp' = temp \ {inv[i].path}
  /\ inv' = [inv EXCEPT ![i] =
               Leave(inv[i], IF inv[i].path \in temp THEN "returned" ELSE "escaped", temp')]
  /\ UNCHANGED <<queryVars, limiterVars, commands, inputs, lock, argsFile, downloads, window>>

\* client.downloadFileMessage settles: the file is written and becomes the
\* argument's value, or the download throws and the callback calls done(error)
Downloaded(d, ok) ==
  /\ d \in downloads
  /\ d.stage = "write"
  /\ LET r == inv[d.i]
         name == r.pending[d.n].name
         p == Filepath(d.doc)
     IN  IF ok
         THEN /\ temp' = temp \cup {p}
              /\ inv' = [inv EXCEPT ![d.i] =
                           [r EXCEPT !.result = Put(@, name, StrV(p)),
                                     !.downloaded = @ \cup {p}]]
              /\ downloads' = (downloads \ {d}) \cup {[d EXCEPT !.stage = "set"]}
         ELSE /\ temp' = temp
              /\ inv' = [inv EXCEPT ![d.i] = Done(r, d.n, "rejected")]
              /\ downloads' = downloads \ {d}
  /\ UNCHANGED <<queryVars, limiterVars, commands, inputs, lock, argsFile, window>>

\* `await redis.set(argsFile(msgId), filepath)`, then done()
PathStored(d) ==
  /\ d \in downloads
  /\ d.stage = "set"
  /\ argsFile' = [argsFile EXCEPT ![inv[d.i].msgId] = Filepath(d.doc)]
  /\ inv' = [inv EXCEPT ![d.i] = Done(inv[d.i], d.n, "resolved")]
  /\ downloads' = downloads \ {d}
  /\ UNCHANGED <<queryVars, limiterVars, commands, inputs, lock, temp, window>>

\* every suspended callback there can be: activation, turn, document, await
Suspended ==
  [i : Invs,
   n : UNION {1..Len(commandsAtStart[c].args) : c \in CommandNames},
   doc : Docs,
   stage : {"write", "set"}]

Next ==
  \/ \E c \in Chats, b \in Bodies : Message(c, b)
  \/ \E i \in Invs, k \in CommandNames, c \in Chats, m \in MsgIds, q \in Matches :
       Trigger(i, k, c, m, q)
  \/ \E i \in Invs : LockGet(i)
  \/ \E i \in Invs : LockSet(i)
  \/ \E k \in CommandNames, c \in Chats : LockExpire(k, c)
  \/ \E i \in Invs, out \in MwOutcomes : Middleware(i, out)
  \/ \E i \in Invs : AbortSent(i)
  \/ \E i \in Invs : TurnSettled(i)
  \/ \E i \in Invs, ok \in BOOLEAN : Execute(i, ok)
  \/ \E i \in Invs, ok \in BOOLEAN : Cleanup(i, ok)
  \/ \E i \in Invs : UnlinkGet(i)
  \/ \E i \in Invs : Unlink(i)
  \/ \E d \in Suspended, ok \in BOOLEAN : Downloaded(d, ok)
  \/ \E d \in Suspended : PathStored(d)

Spec == Init /\ [][Next]_vars

SpecOne == InitOne /\ [][Next]_vars

\* two conversations of `rename`, in one chat or in two: one middleware, one
\* required text argument, and a text reply
InitTalk ==
  /\ Loaded
  /\ QueryLoaded
  /\ LimiterLoaded
  /\ inv = [i \in Invs |-> IF i <= 2 THEN IdleInv ELSE [IdleInv EXCEPT !.pc = "unused"]]
  /\ inputs = [commands |-> {"rename"}, bodies |-> {[text |-> T_7, doc |-> NoDoc]},
               matches |-> {NoMatch}, flights |-> MaxDownloads]

NextTalk ==
  \/ \E c \in Chats, b \in Bodies : Message(c, b)
  \/ \E i \in Invs, k \in CommandNames, c \in Chats, m \in MsgIds, q \in Matches :
       Trigger(i, k, c, m, q)
  \/ \E i \in Invs : LockGet(i)
  \/ \E i \in Invs : LockSet(i)
  \/ \E k \in CommandNames, c \in Chats : LockExpire(k, c)
  \/ \E i \in Invs, out \in MwOutcomes : Middleware(i, out)
  \/ \E i \in Invs : AbortSent(i)
  \/ \E i \in Invs : TurnSettled(i)
  \/ \E i \in Invs, ok \in BOOLEAN : Execute(i, ok)
  \/ \E i \in Invs : UnlinkGet(i)

SpecTalk == InitTalk /\ [][NextTalk]_vars

\* one activation of `import` (a required and an optional file argument), the
\* replies being two documents, a text and /skip, with room for a second
\* download while one is in flight
InitFile ==
  /\ Loaded
  /\ QueryLoaded
  /\ LimiterLoaded
  /\ inv = [i \in Invs |-> IF i = 1 THEN IdleInv ELSE [IdleInv EXCEPT !.pc = "unused"]]
  /\ inputs = [commands |-> {"import"},
               bodies |-> {[text |-> NoText, doc |-> d] : d \in Docs}
                            \cup {[text |-> SKIP, doc |-> NoDoc], [text |-> T_7, doc |-> NoDoc]},
               matches |-> {NoMatch}, flights |-> MaxDownloads + 1]

NextFile ==
  \/ \E c \in Chats, b \in Bodies : Message(c, b)
  \/ \E i \in Invs, k \in CommandNames, c \in Chats, m \in MsgIds, q \in Matches :
       Trigger(i, k, c, m, q)
  \/ \E i \in Invs : LockGet(i)
  \/ \E i \in Invs : LockSet(i)
  \/ \E k \in CommandNames, c \in Chats : LockExpire(k, c)
  \/ \E i \in Invs : TurnSettled(i)
  \/ \E i \in Invs, ok \in BOOLEAN : Execute(i, ok)
  \/ \E i \in Invs, ok \in BOOLEAN : Cleanup(i, ok)
  \/ \E i \in Invs : UnlinkGet(i)
  \/ \E i \in Invs : Unlink(i)
  \/ \E d \in Suspended, ok \in BOOLEAN : Downloaded(d, ok)
  \/ \E d \in Suspended : PathStored(d)

SpecFile == InitFile /\ [][NextFile]_vars

\* ------------------------------------------------------- callback queries
\* the dispatcher at rest, while the callback registry or the limiter runs
DispatchOff ==
  /\ Loaded
  /\ inv = [i \in Invs |-> [IdleInv EXCEPT !.pc = "unused"]]
  /\ inputs = [commands |-> {}, bodies |-> {}, matches |-> {}, flights |-> MaxDownloads]

dispatchVars == <<commands, inv, lock, argsFile, temp, downloads, window, inputs>>

QueryTooLong_Inclusive(q) == Len(q) >= 64 - 9

\* config.query.length > 64 - 9
QueryTooLong(q) == Len(q) > 64 - 9

\* defineTGQueryCallback(config): the definition is put into the map first,
\* then a builder is returned, or the throw for a long id, or a static button
DefineQuery(q) ==
  /\ q \in LateQueryIds
  /\ builders[q] = "none"
  /\ \A n \in 1..Len(LateQueries) :
       LateQueries[n] = q => \A m \in 1..(n - 1) : builders[LateQueries[m]] # "none"
  /\ queryCallbacks' = Put(queryCallbacks, q, QueryConfig(q))
  /\ builders' = [builders EXCEPT ![q] =
                    IF QueryConfig(q).hasArgs
                    THEN IF QueryTooLong(q) THEN "threw" ELSE "builder"
                    ELSE "static"]
  /\ buttons' = IF QueryConfig(q).hasArgs THEN buttons
                ELSE buttons \cup {Button(q, <<>>, EmptyObj)}
  /\ UNCHANGED <<dispatchVars, limiterVars, cbParams, lastBuild, click>>

\* the declared keys of a definition, in order
QKeys(def) == [n \in 1..Len(def.args) |-> def.args[n].name]

\* the first declared key that is required and undefined in args, "" if none
MissingRequired(def, args) ==
  LET miss == SelectSeq(def.args, LAMBDA a : a.required /\ Get(args, a.name) = Undefined)
  IN  IF miss = <<>> THEN "" ELSE Head(miss).name

\* params[key] = args?.[key] for every declared key
BuilderParams(def, args) ==
  [k \in {def.args[n].name : n \in 1..Len(def.args)} |-> Get(args, k)]

BuildStores_BeforeValidation(missing) == TRUE

\* whether the builder reaches redis.set: only past the loop that throws
BuildStores(missing) == missing = ""

\* the button builder of query id q called with args, an object of declared
\* keys by the builder's type; nanoid gives a key not handed out for q before
Build(q, args, key) ==
  /\ builders[q] = "builder"
  /\ DOMAIN args \subseteq {QueryConfig(q).args[n].name : n \in 1..Len(QueryConfig(q).args)}
  /\ MissingRequired(QueryConfig(q), args) = "" =>
       Cardinality({b \in buttons : b.key # <<>>}) < MaxButtons
  /\ <<q, key>> \notin DOMAIN cbParams
  /\ LET def == QueryConfig(q)
         missing == MissingRequired(def, args)
         params == BuilderParams(def, args)
         json == safeStringify(params, QKeys(def))
     IN  /\ cbParams' = IF BuildStores(missing)
                        THEN Put(cbParams, <<q, key>>, Stored(json, "none"))
                        ELSE cbParams
         /\ buttons' = IF missing = "" THEN buttons \cup {Button(q, key, params)}
                       ELSE buttons
         /\ lastBuild' = [called |-> TRUE, query |-> q, args |-> args,
                          threw |-> missing # "", stored |-> cbParams,
                          handed |-> buttons]
  /\ UNCHANGED <<dispatchVars, limiterVars, queryCallbacks, builders, click>>

\* throwError(message): logger.error and the alert, then the handler returns
throwError(r, message) ==
  [r EXCEPT !.pc = "done", !.alerts = @ + 1, !.alertMsg = message, !.logged = @ + 1]

RunCallback_AckAfter(r, def) ==
  IF MissingRequired(def, r.args) # "" THEN throwError(r, "Missing required argument")
  ELSE [r EXCEPT !.pc = "callback"]

RunCallback_DespiteMissing(r, def) ==
  [r EXCEPT !.pc = "callback", !.acks = @ + 1]

\* the check of the required arguments, then answerCallbackQuery(query.id)
\* and `await callback.callback?.(ctx)`
RunCallback(r, def) ==
  IF MissingRequired(def, r.args) # "" THEN throwError(r, "Missing required argument")
  ELSE [r EXCEPT !.pc = "callback", !.acks = @ + 1]

Decode_AbsentAlerts(r, store) ==
  IF <<r.command, r.argsKey>> \in DOMAIN store
  THEN [r EXCEPT !.args = JsonParseInto(EmptyObj, store[<<r.command, r.argsKey>>].value)]
  ELSE [r EXCEPT !.absent = TRUE, !.alerts = @ + 1, !.alertMsg = "No params"]

\* `if (cacheParams) Object.assign(parserArgs, JSON.parse(cacheParams))`
Decode(r, store) ==
  IF <<r.command, r.argsKey>> \in DOMAIN store
  THEN [r EXCEPT !.args = JsonParseInto(EmptyObj, store[<<r.command, r.argsKey>>].value)]
  ELSE [r EXCEPT !.absent = TRUE]

\* the callback_query handler up to its first await
HandleClick(data, registry) ==
  LET r == [IdleClick EXCEPT !.data = data,
                             !.command = SplitCommand(data.text),
                             !.argsKey = SplitArgsKey(data.text)]
  IN  IF ~data.has \/ data.text = <<>> THEN throwError(r, "No data")
      ELSE IF r.command = <<>> THEN throwError(r, "No query")
      ELSE IF r.command \notin DOMAIN registry THEN throwError(r, "Query not found")
      ELSE IF r.argsKey # <<>> THEN [r EXCEPT !.pc = "get"]
      ELSE RunCallback(r, registry[r.command])

\* a callback_query event arrives
Click(data) ==
  /\ click.pc \in {"idle", "done", "escaped"}
  /\ click' = [HandleClick(data, queryCallbacks) EXCEPT
                 !.built = \E b \in buttons : b.key # <<>> /\ data = Data(b.payload)]
  /\ UNCHANGED <<dispatchVars, limiterVars, queryCallbacks, builders, cbParams, buttons,
                 lastBuild>>

\* `await redis.get(cbParams(command, argsKey))` settles: with the record or
\* null, or with a rejection, which no try block of the handler encloses
ClickGet(ok) ==
  /\ click.pc = "get"
  /\ click' = IF ok THEN RunCallback(Decode(click, cbParams), queryCallbacks[click.command])
              ELSE [click EXCEPT !.pc = "escaped"]
  /\ UNCHANGED <<dispatchVars, limiterVars, queryCallbacks, builders, cbParams, buttons,
                 lastBuild>>

\* the callback settles; then `await callback.cleanup?.(ctx)`, or the catch
ClickCallback(ok) ==
  /\ click.pc = "callback"
  /\ LET r == [click EXCEPT !.calls = @ + 1, !.callArgs = click.args] IN
     click' = IF ~ok THEN [r EXCEPT !.pc = "done", !.logged = @ + 1]
              ELSE IF queryCallbacks[click.command].cleanup
                   THEN [r EXCEPT !.pc = "cleanup", !.cleanups = @ + 1]
              ELSE [r EXCEPT !.pc = "done"]
  /\ UNCHANGED <<dispatchVars, limiterVars, queryCallbacks, builders, cbParams, buttons,
                 lastBuild>>

\* the cleanup hook settles
ClickCleanup(ok) ==
  /\ click.pc = "cleanup"
  /\ click' = [click EXCEPT !.pc = "done", !.logged = IF ok THEN @ ELSE @ + 1]
  /\ UNCHANGED <<dispatchVars, limiterVars, queryCallbacks, builders, cbParams, buttons,
                 lastBuild>>

NextQuery ==
  \/ \E q \in QueryIds : DefineQuery(q)
  \/ \E q \in QueryIds, a \in BuilderArgs, k \in NanoIds : Build(q, a, k)
  \/ \E d \in ClickData : Click(d)
  \/ \E ok \in BOOLEAN : ClickGet(ok)
  \/ \E ok \in BOOLEAN : ClickCallback(ok)
  \/ \E ok \in BOOLEAN : ClickCleanup(ok)

InitQuery == DispatchOff /\ QueryLoaded /\ LimiterLoaded

SpecQuery == InitQuery /\ [][NextQuery]_vars

\* ------------------------------------------------------------ rate limiter
\* failures a job can meet in one run
MaxFailures == 12

failedRetryTime == 1000
failedRetryLimit == 10

Err(code, message) == [code |-> code, message |-> message]

\* what an attempt of the wrapped function can reject with: the platform's
\* errors "400", "429" and "502", and an error that is not the platform's
Errors ==
  { Err("ETELEGRAM", <<"4", "0", "0">>), Err("ETELEGRAM", <<"4", "2", "9">>),
    Err("ETELEGRAM", <<"5", "0", "2">>), Err("EFATAL", <<"4", "0", "0">>) }

\* String.prototype.includes
Includes(s, p) == \E i \in 1..(Len(s) - Len(p) + 1) : SubSeq(s, i, i + Len(p) - 1) = p

defaultCheckJobFailError_Inclusive(error, retryCount) == retryCount <= failedRetryLimit

\* RateLimiterControl.checkJobFailError
defaultCheckJobFailError(error, retryCount) == retryCount < failedRetryLimit

\* TelegramBotClient.checkJobFailError
telegramCheckJobFailError(error, retryCount) ==
  IF defaultCheckJobFailError(error, retryCount) THEN TRUE
  ELSE IF error.code = "ETELEGRAM"
       THEN ~Includes(error.message, <<"4", "0", "0">>) /\ ~Includes(error.message, <<"4", "2", "9">>)
  ELSE FALSE

checkJobFailError(classifier, error, retryCount) ==
  IF classifier = "telegram" THEN telegramCheckJobFailError(error, retryCount)
  ELSE defaultCheckJobFailError(error, retryCount)

onFailed_Silent(j, error) ==
  LET j1 == [j EXCEPT !.lastErr = error, !.failures = @ + 1] IN
  IF checkJobFailError(j.classifier, error, j.retryCount)
  THEN [j1 EXCEPT !.pc = "waiting", !.retryCount = @ + 1, !.wait = failedRetryTime]
  ELSE [j1 EXCEPT !.pc = "done", !.outcome = "rejected", !.rejectErr = error]

\* the 'failed' handler of the limiter and what the limiter does with its
\* return value: a number schedules a retry after that many milliseconds and
\* counts it, nothing rejects the job's promise with the error
onFailed(j, error) ==
  LET j1 == [j EXCEPT !.lastErr = error, !.failures = @ + 1] IN
  IF checkJobFailError(j.classifier, error, j.retryCount)
  THEN [j1 EXCEPT !.pc = "waiting", !.retryCount = @ + 1, !.wait = failedRetryTime,
                  !.warnings = @ + 1]
  ELSE [j1 EXCEPT !.pc = "done", !.outcome = "rejected", !.rejectErr = error]

\* the job of a call that the limiter has started
Scheduled(classifier) ==
  [IdleJob EXCEPT !.pc = "running", !.classifier = classifier, !.attempts = 1]

\* a method of a proxied object is called: the limiter schedules the job
Call(classifier) ==
  /\ job.pc \in {"idle", "done"}
  /\ tpl.pc # "send"
  /\ job' = Scheduled(classifier)
  /\ UNCHANGED <<dispatchVars, queryVars, tpl, proxyVars>>

\* the wrapped function resolves
AttemptOk ==
  /\ job.pc = "running"
  /\ job' = [job EXCEPT !.pc = "done", !.outcome = "resolved"]
  /\ UNCHANGED <<dispatchVars, queryVars, tpl, proxyVars>>

\* the wrapped function rejects with error
AttemptFails(error) ==
  /\ job.pc = "running"
  /\ job.failures < MaxFailures
  /\ job' = onFailed(job, error)
  /\ UNCHANGED <<dispatchVars, queryVars, tpl, proxyVars>>

\* the retry delay has passed
RetryAfter ==
  /\ job.pc = "waiting"
  /\ job' = [job EXCEPT !.pc = "running", !.attempts = @ + 1]
  /\ UNCHANGED <<dispatchVars, queryVars, tpl, proxyVars>>

templateCatch_Rethrow(t, step) ==
  [t EXCEPT !.pc = "done", !.failed = step, !.outcome = "rejected"]

\* catch (error) { logger.error(...); return null }
templateCatch(t, step) ==
  [t EXCEPT !.pc = "done", !.failed = step, !.logged = @ + 1, !.result = "null",
            !.outcome = "resolved"]

\* sendTemplateDocument ("send") or editMessageTextUseTemplate ("edit") is
\* called, with or without a data object
TemplateCall(fn, data) ==
  /\ tpl.pc \in {"idle", "done"}
  /\ job.pc \in {"idle", "done"}
  /\ tpl' = [IdleTpl EXCEPT !.pc = "access", !.fn = fn, !.data = data]
  /\ UNCHANGED <<dispatchVars, queryVars, job, proxyVars>>

\* await fs.access(...): the template exists, or the promise rejects
TemplateAccess(ok) ==
  /\ tpl.pc = "access"
  /\ tpl' = IF ok THEN [tpl EXCEPT !.pc = "read"] ELSE templateCatch(tpl, "access")
  /\ UNCHANGED <<dispatchVars, queryVars, job, proxyVars>>

\* await fs.readFile(...), then with a data object template(doc)(data), which
\* throws or renders, then the send or edit through the proxied bot
TemplateRead(ok, renders) ==
  /\ tpl.pc = "read"
  /\ IF ~ok THEN tpl' = templateCatch(tpl, "read") /\ UNCHANGED job
     ELSE IF tpl.data /\ ~renders THEN tpl' = templateCatch(tpl, "render") /\ UNCHANGED job
     ELSE tpl' = [tpl EXCEPT !.pc = "send"] /\ job' = Scheduled("telegram")
  /\ UNCHANGED <<dispatchVars, queryVars, proxyVars>>

\* the promise of the send or edit settles: value is what the platform call
\* resolved with, a message or (an edit only) a falsy value
TemplateSettled(value) ==
  /\ tpl.pc = "send"
  /\ job.pc = "done"
  /\ value = "false" => tpl.fn = "edit"
  /\ tpl' = IF job.outcome = "rejected" THEN templateCatch(tpl, "send")
            ELSE [tpl EXCEPT !.pc = "done", !.outcome = "resolved",
                             !.result = IF tpl.fn = "edit" /\ value = "false"
                                        THEN "null" ELSE value]
  /\ UNCHANGED <<dispatchVars, queryVars, job, proxyVars>>

NextLimiter ==
  \/ \E c \in {"default", "telegram"} : Call(c)
  \/ AttemptOk
  \/ \E e \in Errors : AttemptFails(e)
  \/ RetryAfter
  \/ \E fn \in {"send", "edit"}, data \in BOOLEAN : TemplateCall(fn, data)
  \/ \E ok \in BOOLEAN : TemplateAccess(ok)
  \/ \E ok \in BOOLEAN, renders \in BOOLEAN : TemplateRead(ok, renders)
  \/ \E value \in {"message", "false"} : TemplateSettled(value)

InitLimiter == DispatchOff /\ QueryLoaded /\ LimiterLoaded

SpecLimiter == InitLimiter /\ [][NextLimiter]_vars

\* ------------------------------------------------- the proxy and its limiter
\* jobs submitted to the limiters in one run
MaxJobs == 3

\* the moments at which something happens
Times == {0, 10, 100, 500}

storeVars == <<inv, lock, argsFile, temp, downloads, window, inputs>>

\* the job of a call: kind is the method called, name the command of a
\* listener, at the time of the call
Op(kind, name, at) == [kind |-> kind, name |-> name, at |-> at]

Jobs(l) == Len(l.queue) + Len(l.started)
JobsIn(f) == Jobs(limiter[f])
RECURSIVE JobsUpTo(_)
JobsUpTo(f) == IF f = 0 THEN 0 ELSE JobsIn(f) + JobsUpTo(f - 1)

wrap_Direct(l, op) ==
  [l EXCEPT !.running = @ + 1, !.started = Append(@, [at |-> op.at, t |-> op.at])]

\* a function property read through the proxy is this.rateLimiter.wrap(origFunc):
\* calling it hands the call to the limiter as a job, behind those waiting
wrap(l, op) == [l EXCEPT !.queue = Append(@, op)]

\* the limiter lets a job start at time t: the spacing to the start before
\* it has passed and a slot is free
CanStart(l, t) == t >= l.next /\ l.running < l.maxConcurrent

\* the limiter after it has started the job at the head of its queue at
\* time t; holds says that the job stays in flight until its promise settles
StartHead(l, t, holds) ==
  [l EXCEPT !.queue = Tail(@), !.next = t + l.minTime,
            !.running = IF holds THEN @ + 1 ELSE @,
            !.started = Append(@, [at |-> Head(l.queue).at, t |-> t])]

Count(cbs, name) == Cardinality({i \in 1..Len(cbs) : cbs[i] = name})

\* TelegramBot.removeTextListener: the first listener with the pattern goes
removeTextListener(cbs, name) ==
  LET idx == {i \in 1..Len(cbs) : cbs[i] = name} IN
  IF idx = {} THEN cbs
  ELSE LET k == CHOOSE i \in idx : \A j \in idx : i <= j
       IN  SubSeq(cbs, 1, k - 1) \o SubSeq(cbs, k + 1, Len(cbs))

\* what the started function does to the text listeners of the bot
Run(op, cbs) ==
  IF op.kind = "onText" THEN Append(cbs, op.name)
  ELSE IF op.kind = "removeTextListener" THEN removeTextListener(cbs, op.name)
  ELSE cbs

\* a listener job of the command waits in the queue
Waiting(l, name) == \E i \in 1..Len(l.queue) : l.queue[i].kind # "call" /\ l.queue[i].name = name

\* another definition of "start": one middleware
startAgain == [commandsAtStart["start"] EXCEPT !.nmw = 1]

\* a method of the platform is called through the proxy of facade f; the
\* facades are numbered in the order of their first call
Invoke(f) ==
  /\ JobsUpTo(NumFacades) < MaxJobs
  /\ f > 1 => JobsIn(f - 1) > 0
  /\ limiter' = [limiter EXCEPT ![f] = wrap(@, Op("call", "", now))]
  /\ UNCHANGED <<commands, storeVars, queryVars, job, tpl, sync, now, textRegexpCallbacks, trig>>

\* defineTGCommand: botClient is facade 1
DefineCommand(name, def) ==
  LET has == name \in DOMAIN commands
      l1 == IF has THEN wrap(limiter[1], Op("removeTextListener", name, now)) ELSE limiter[1]
  IN  /\ JobsUpTo(NumFacades) + 2 <= MaxJobs
      /\ trig.defines < 2
      /\ commands' = Put(commands, name, def)
      /\ limiter' = [limiter EXCEPT ![1] = wrap(l1, Op("onText", name, now))]
      /\ trig' = [NoTrig EXCEPT !.defines = trig.defines + 1,
                                !.settled = /\ has
                                            /\ Count(textRegexpCallbacks, name) = 1
                                            /\ ~Waiting(limiter[1], name)]
      /\ UNCHANGED <<storeVars, queryVars, job, tpl, sync, now, textRegexpCallbacks>>

\* the limiter of facade f starts the job at the head of its queue
Start(f) ==
  /\ limiter[f].queue # <<>>
  /\ CanStart(limiter[f], now)
  /\ LET op == Head(limiter[f].queue) IN
       /\ limiter' = [limiter EXCEPT ![f] = StartHead(@, now, op.kind = "call")]
       /\ textRegexpCallbacks' = IF f = 1 THEN Run(op, textRegexpCallbacks)
                                 ELSE textRegexpCallbacks
  /\ UNCHANGED <<commands, storeVars, queryVars, job, tpl, sync, now, trig>>

\* the promise of a call in flight settles
Finish(f) ==
  /\ limiter[f].running > 0
  /\ limiter' = [limiter EXCEPT ![f].running = @ - 1]
  /\ UNCHANGED <<commands, storeVars, queryVars, job, tpl, sync, now, textRegexpCallbacks, trig>>

\* time passes
Tick(t) ==
  /\ t > now
  /\ now' = t
  /\ UNCHANGED <<commands, storeVars, queryVars, job, tpl, sync, limiter, textRegexpCallbacks, trig>>

\* the bot processes a message "/<name>": every text listener whose pattern
\* matches is called, and each handler dispatches by commands.get(name)
TriggerText(name) ==
  /\ trig' = [trig EXCEPT !.fired = TRUE,
                          !.handlers = Count(textRegexpCallbacks, name),
                          !.def = Get(commands, name)]
  /\ UNCHANGED <<commands, storeVars, queryVars, job, tpl, sync, now, limiter, textRegexpCallbacks>>

\* calls through the proxies of the facades
NextProxy ==
  \/ \E f \in Facades : Invoke(f)
  \/ \E f \in Facades : Start(f)
  \/ \E f \in Facades : Finish(f)
  \/ \E t \in Times : Tick(t)

\* definitions of a command and trigger texts for it
NextDefine ==
  \/ \E def \in {commandsAtStart["start"], startAgain} : DefineCommand("start", def)
  \/ Start(1)
  \/ \E t \in Times : Tick(t)
  \/ TriggerText("start")

\* the module of the client has been loaded, no command is defined yet
InitProxy ==
  /\ commands = EmptyObj
  /\ lock = {}
  /\ argsFile = [m \in MsgIds |-> NoPath]
  /\ temp = {}
  /\ downloads = {}
  /\ window = [k \in CommandNames \X Chats |-> 0]
  /\ inv = [i \in Invs |-> [IdleInv EXCEPT !.pc = "unused"]]
  /\ inputs = [commands |-> {}, bodies |-> {}, matches |-> {}, flights |-> MaxDownloads]
  /\ QueryLoaded
  /\ job = IdleJob
  /\ tpl = IdleTpl
  /\ now = 0
  /\ \E s \in Settings : limiter = [f \in Facades |-> NewLimiter(s)]
  /\ textRegexpCallbacks = <<>>
  /\ trig = NoTrig
  /\ sync = IdleSync

SpecProxy == InitProxy /\ [][NextProxy]_vars
SpecDefine == InitProxy /\ [][NextDefine]_vars

\* ------------------------------------------------------- setupTGCommands
\* setupTGCommands is called: `await fs.access(...)`, then `await fs.mkdir(...)`
\* when the temp directory is missing; a failing mkdir is outside the try block
MakeTemp(ok) ==
  /\ sync.pc \in {"idle", "retry"}
  /\ sync' = IF sync.dir \/ ok
             THEN [sync EXCEPT !.pc = "loop", !.dir = TRUE, !.pos = 1, !.newCommands = <<>>,
                               !.passes = @ + 1]
             ELSE [sync EXCEPT !.pc = "escaped", !.passes = @ + 1]
  /\ UNCHANGED <<dispatchVars, queryVars, job, tpl, now, limiter, textRegexpCallbacks, trig>>

\* `config.setup?.(...)`: the hook of command c is called when it is declared
setup(r, c) == c \in r.setup

\* one round of the loop: `await config.setup?.(...)` settles or raises (the
\* inner catch logs), then newCommands.push
Setup(ok) ==
  /\ sync.pc = "loop"
  /\ LET c == commandOrder[sync.pos]
         called == setup(sync, c)
     IN  /\ ok \/ called
         /\ sync' = [sync EXCEPT
                       !.hooks[c] = IF called THEN @ + 1 ELSE @,
                       !.raised = IF ok THEN @ ELSE @ \cup {c},
                       !.newCommands = Append(@, c),
                       !.pos = @ + 1,
                       !.pc = IF sync.pos = Len(commandOrder) THEN "publish" ELSE "loop"]
  /\ UNCHANGED <<dispatchVars, queryVars, job, tpl, now, limiter, textRegexpCallbacks, trig>>

\* `await botClient.bot.setMyCommands(newCommands)`: return true, or the outer
\* catch logs and returns setupTGCommands()
SetMyCommands(ok) ==
  /\ sync.pc = "publish"
  /\ ok \/ sync.passes <= MaxRetries
  /\ sync' = IF ok THEN [sync EXCEPT !.pc = "done", !.published = sync.newCommands,
                                     !.publishes = @ + 1]
             ELSE [sync EXCEPT !.pc = "retry"]
  /\ UNCHANGED <<dispatchVars, queryVars, job, tpl, now, limiter, textRegexpCallbacks, trig>>

NextSetup ==
  \/ \E ok \in BOOLEAN : MakeTemp(ok)
  \/ \E ok \in BOOLEAN : Setup(ok)
  \/ \E ok \in BOOLEAN : SetMyCommands(ok)

\* the commands of start-up, any of them with a setup hook, the temp
\* directory there or not
InitSetup ==
  /\ DispatchOff
  /\ QueryLoaded
  /\ job = IdleJob /\ tpl = IdleTpl
  /\ ProxyAtRest
  /\ \E S \in SUBSET CommandNames, d \in BOOLEAN :
       sync = [IdleSync EXCEPT !.setup = S, !.dir = d]

SpecSetup == InitSetup /\ [][NextSetup]_vars

\* ------------------------------------------------------------------ claims
Def(i) == commands[inv[i].command]
Left(i) == inv[i].pc \in {"returned", "escaped"}

\* the declared arguments the trigger's query string names, and the others
Inline(i) ==
  SelectSeq(Def(i).args,
            LAMBDA a : inv[i].match.has /\ ParamsGet(inv[i].match.params, a.name).found)
NotInline(i) ==
  SelectSeq(Def(i).args,
            LAMBDA a : ~(inv[i].match.has /\ ParamsGet(inv[i].match.params, a.name).found))
Names(args) == [n \in 1..Len(args) |-> args[n].name]
NameSet(args) == {args[n].name : n \in 1..Len(args)}
Elems(seq) == {seq[n] : n \in 1..Len(seq)}

\* C1: while the lock of a (command, chat) is present, exactly one trigger of
\* that command in that chat has called dispatchCommand since the lock was
\* last absent, however the handlers of the triggers interleave
C1_OneDispatchPerLock == \A k \in CommandNames \X Chats : k \in lock => window[k] = 1

C3_PromptsInOrder ==
  \A i \in Invs : inv[i].dispatched =>
    LET want == Names(NotInline(i))
        sent == inv[i].prompts
    IN  /\ Len(sent) <= Len(want)
        /\ sent = SubSeq(want, 1, Len(sent))
        /\ \A n \in 2..Len(sent) : (n - 1) \in inv[i].settled
        /\ inv[i].calls > 0 => sent = want

C3_Witness ==
  \E i \in Invs : /\ inv[i].calls > 0
                  /\ Len(inv[i].prompts) = 2
                  /\ inv[i].settled = {1, 2}

\* C4: every declared argument named in the query string holds its coerced
\* value from the moment dispatchCommand starts, is never prompted for and is
\* not pending; the execution callback gets the inline values and the
\* collected ones together
C4_InlineArguments ==
  \A i \in Invs : inv[i].dispatched =>
    /\ \A n \in 1..Len(Inline(i)) :
         LET a == Inline(i)[n]
             raw == ParamsGet(inv[i].match.params, a.name).value
             v == Get(inv[i].args, a.name)
         IN  /\ a.name \in DOMAIN inv[i].args
             /\ a.type = "boolean" => v = BoolV(raw = T_true)
             /\ a.type = "number" => v = ParseInt(raw)
             /\ a.type \in {"string", "file"} => v = StrV(raw)
             /\ a.name \notin Elems(inv[i].prompts)
             /\ a.name \notin NameSet(inv[i].pending)
    /\ inv[i].calls > 0 =>
         /\ DOMAIN inv[i].args = NameSet(Inline(i)) \cup DOMAIN inv[i].collected
         /\ DOMAIN inv[i].collected \subseteq NameSet(NotInline(i))
         /\ \A k \in DOMAIN inv[i].collected : inv[i].args[k] = inv[i].collected[k]

C4_Witness ==
  \E i \in Invs : /\ inv[i].calls > 0
                  /\ Get(inv[i].args, "limit") = NumV(4)
                  /\ "full" \in DOMAIN inv[i].collected
                  /\ inv[i].prompts = <<"full">>

\* C5: when every turn got one reply, /skip for an optional argument and a
\* value for a required one, the execution callback's argument object has
\* the inline keys and the required pending keys, and no skipped key
C5_SkippedKeysAbsent ==
  \A i \in Invs : (inv[i].calls > 0 /\ inv[i].tidy) =>
    DOMAIN inv[i].args =
      NameSet(Inline(i)) \cup NameSet(SelectSeq(NotInline(i), LAMBDA a : a.required))

C5_Witness ==
  \E i \in Invs : /\ inv[i].calls > 0
                  /\ inv[i].tidy
                  /\ inv[i].command = "report"
                  /\ inv[i].settled = {1, 2}
                  /\ DOMAIN inv[i].args = {"full"}

C7_ErrorReplyAborts ==
  \A i \in Invs : inv[i].errorAt > 0 =>
    /\ Len(inv[i].prompts) <= inv[i].errorAt
    /\ \A n \in (inv[i].errorAt + 1)..Len(inv[i].pending) :
         inv[i].pending[n].name \notin DOMAIN inv[i].result
    /\ inv[i].calls = 0

\* C8: when dispatchCommand has ended for a command that declares a cleanup
\* hook, the hook has been invoked exactly once
C8_CleanupAlwaysRuns ==
  \A i \in Invs : (Left(i) /\ inv[i].dispatched /\ Def(i).cleanup) => inv[i].cleanups = 1

\* C9: when dispatchCommand has ended, no file it downloaded is left in the
\* temp directory
C9_TempFilesDeleted == \A i \in Invs : Left(i) => inv[i].leaked = {}

\* C10: no exception leaves dispatchCommand
C10_NothingEscapes == \A i \in Invs : inv[i].pc # "escaped"

\* the declaration of the query id a click names
ClickDef == queryCallbacks[click.command]
Handled == click.pc \in {"callback", "cleanup", "done"}

\* C11: a click on a button that a builder had returned decodes the stored
\* record to the arguments the builder was given, over the declared keys,
\* and the callback is run with them
C11_ButtonRoundTrip ==
  \A b \in buttons :
    (click.built /\ click.data = Data(b.payload) /\ Handled) =>
      /\ click.command = b.query
      /\ \A k \in DOMAIN b.args : Get(click.args, k) = b.args[k]
      /\ click.pc = "done" => (click.calls = 1 /\ click.callArgs = click.args)

C13_PayloadWithinLimit ==
  \A b \in buttons :
    /\ \/ b.payload = b.query
       \/ Len(b.key) = 8 /\ b.payload = b.query \o <<":">> \o b.key
    /\ Len(b.payload) <= 64

\* C14: a builder call whose input lacks a required argument throws, writes
\* no record and hands out no button
C14_MissingRequiredThrows ==
  (lastBuild.called /\
     \E n \in 1..Len(QueryConfig(lastBuild.query).args) :
        LET a == QueryConfig(lastBuild.query).args[n]
        IN  a.required /\ a.name \notin DOMAIN lastBuild.args) =>
    /\ lastBuild.threw
    /\ cbParams = lastBuild.stored
    /\ {b \in buttons : b.key # <<>>} = {b \in lastBuild.handed : b.key # <<>>}

C14_Witness ==
  /\ lastBuild.called
  /\ lastBuild.threw
  /\ lastBuild.query = Pay
  /\ "note" \in DOMAIN lastBuild.args
  /\ cbParams # EmptyObj

\* a click that fails validation: no payload, an empty query id, a query id
\* that is not registered, or a required argument missing after decoding
InvalidClick ==
  /\ click.pc # "idle"
  /\ \/ ~click.data.has
     \/ click.data.text = <<>>
     \/ SplitCommand(click.data.text) = <<>>
     \/ SplitCommand(click.data.text) \notin DOMAIN queryCallbacks
     \/ /\ Handled
        /\ \E n \in 1..Len(ClickDef.args) :
             ClickDef.args[n].required /\ ClickDef.args[n].name \notin DOMAIN click.args

\* C15: a click that fails validation gets one alert, and neither the
\* callback nor the cleanup hook runs for it
C15_InvalidClickAlerts ==
  InvalidClick =>
    /\ click.pc = "done"
    /\ click.alerts = 1
    /\ click.calls = 0
    /\ click.cleanups = 0

C15_Witness ==
  /\ click.pc = "done"
  /\ click.command = Pay
  /\ click.argsKey # <<>>
  /\ click.alerts = 1
  /\ click.alertMsg = "Missing required argument"
  /\ click.calls = 0

\* C16: a click whose parameter key has no stored record is handled with the
\* empty argument object and no alert about the record; without a required
\* argument the callback runs with the empty arguments
C16_AbsentRecordIsEmpty ==
  click.absent =>
    /\ click.args = EmptyObj
    /\ click.alerts > 0 =>
         /\ click.alertMsg = "Missing required argument"
         /\ \E n \in 1..Len(ClickDef.args) : ClickDef.args[n].required
    /\ (\A n \in 1..Len(ClickDef.args) : ~ClickDef.args[n].required) =>
         /\ Handled
         /\ click.alerts = 0
         /\ click.pc = "done" => (click.calls = 1 /\ click.callArgs = EmptyObj)

C16_Witness ==
  /\ click.absent
  /\ click.command = Opt
  /\ click.pc = "done"
  /\ click.calls = 1
  /\ click.callArgs = EmptyObj

\* C17: no exception leaves the click handler
C17_ClickNeverEscapes == click.pc # "escaped"

\* C18: a job is not rejected while its failures are within the retry
\* limit, and a job that succeeds after k failures, k within the limit, has
\* logged k retry warnings
C18_RetriesThenSucceeds ==
  job.failures <= failedRetryLimit =>
    /\ job.outcome # "rejected"
    /\ job.outcome = "resolved" => job.warnings = job.failures

C18_Witness ==
  /\ job.outcome = "resolved"
  /\ job.failures = 2
  /\ job.warnings = 2
  /\ job.attempts = 3

\* C19: under the default classifier a job is attempted at most N+1 times,
\* its (N+1)-th failure rejects it, and it rejects with the error of its last
\* attempt
C19_ExhaustedBudgetRejects ==
  job.classifier = "default" =>
    /\ job.attempts <= failedRetryLimit + 1
    /\ job.failures = failedRetryLimit + 1 => job.outcome = "rejected"
    /\ job.outcome = "rejected" =>
         /\ job.attempts = failedRetryLimit + 1
         /\ job.failures = job.attempts
         /\ job.rejectErr = job.lastErr
         /\ job.rejectErr \in Errors

C19_Witness ==
  /\ job.classifier = "default"
  /\ job.outcome = "rejected"
  /\ job.attempts = failedRetryLimit + 1

\* C20: with the chat-platform classifier a failure with a 400 or a 429
\* message rejects the job at once, with no further attempt
C20_BadRequestNotRetried ==
  ( /\ job.classifier = "telegram"
    /\ job.lastErr.code = "ETELEGRAM"
    /\ \/ Includes(job.lastErr.message, <<"4", "0", "0">>)
       \/ Includes(job.lastErr.message, <<"4", "2", "9">>) ) =>
    /\ job.pc = "done"
    /\ job.outcome = "rejected"
    /\ job.rejectErr = job.lastErr

\* C21: a job of the chat-platform client is attempted at most N+1 times:
\* its (N+1)-th failure rejects it, whatever the error
C21_TelegramJobSettles ==
  job.classifier = "telegram" =>
    /\ job.attempts <= failedRetryLimit + 1
    /\ job.failures = failedRetryLimit + 1 => job.outcome = "rejected"

\* C25: no command with a file argument that has no template path is ever
\* dispatched
C25_FileArgNeedsTemplate ==
  \A i \in Invs : inv[i].dispatched =>
    \A n \in 1..Len(Def(i).args) : Def(i).args[n].type = "file" => Def(i).args[n].template

\* C28: every stored callback-parameter record was written with an expiry
C28_ParamsHaveTtl == \A k \in DOMAIN cbParams : cbParams[k].ex # "none"

\* C29: the subscription of a turn is the one of the current turn, and no
\* subscription is left once the turn has settled or the invocation has ended
C29_TurnUnsubscribes ==
  \A i \in Invs :
    /\ inv[i].listen \in {0, inv[i].idx}
    /\ (inv[i].turn \in {"resolved", "rejected"} \/ Left(i)) => inv[i].listen = 0

\* C26: a template helper never rejects; when the access, the read, the
\* rendering or the send or edit has failed, it has logged the error once and
\* resolved to null
C26_TemplateNeverRejects ==
  /\ tpl.outcome # "rejected"
  /\ (tpl.pc = "done" /\ tpl.failed # "") =>
       (tpl.outcome = "resolved" /\ tpl.result = "null" /\ tpl.logged = 1)
  /\ (tpl.pc = "done" /\ tpl.failed = "") => tpl.logged = 0

\* a helper has met a send or edit that the limiter rejected after retries
C26_Witness ==
  /\ tpl.pc = "done" /\ tpl.failed = "send" /\ tpl.result = "null"
  /\ job.outcome = "rejected" /\ job.failures > 1

Gap(a, b) == IF a.t >= b.t THEN a.t - b.t ELSE b.t - a.t

\* C22: the starts of any two jobs of one limiter are at least its minTime
\* apart, and never more than its maxConcurrent jobs are in flight
C22_SpacingAndCap ==
  \A f \in Facades :
    /\ limiter[f].running <= limiter[f].maxConcurrent
    /\ \A i, j \in 1..Len(limiter[f].started) :
         i # j => Gap(limiter[f].started[i], limiter[f].started[j]) >= limiter[f].minTime

\* with spacing 100 ms and one job at a time, the calls made at 0 and at
\* 10 ms have started at 0 and at 100 ms
C22_Witness ==
  \E f \in Facades :
    /\ limiter[f].minTime = 100 /\ limiter[f].maxConcurrent = 1
    /\ Len(limiter[f].started) = 2
    /\ limiter[f].started[1] = [at |-> 0, t |-> 0]
    /\ limiter[f].started[2] = [at |-> 10, t |-> 100]

RECURSIVE RunningUpTo(_)
RunningUpTo(f) == IF f = 0 THEN 0 ELSE limiter[f].running + RunningUpTo(f - 1)

\* C23: over the calls of all facades together, no two starts are closer
\* than minTime, unless they are one and the same, and no more than
\* maxConcurrent jobs are in flight
C23_FacadesShareQuota ==
  /\ RunningUpTo(NumFacades) <= limiter[1].maxConcurrent
  /\ \A f, g \in Facades :
       \A i \in 1..Len(limiter[f].started), j \in 1..Len(limiter[g].started) :
         (f # g \/ i # j) =>
           Gap(limiter[f].started[i], limiter[g].started[j]) >= limiter[1].minTime

\* C24: once a command has been defined a second time, with the listener of
\* its first definition attached, a trigger text meets exactly one listener
\* and its dispatch reads the latest definition
C24_OneListenerAfterRedefinition ==
  (trig.fired /\ trig.defines = 2 /\ trig.settled) =>
    (trig.handlers = 1 /\ trig.def = commands["start"])

\* C27: a trigger is ignored only when the same command has been dispatched
\* in the same chat, never because of a conversation in another chat
C27_OtherChatNotBlocked ==
  \A j \in Invs : inv[j].pc = "ignored" =>
    \E k \in Invs : /\ k # j
                    /\ inv[k].dispatched
                    /\ inv[k].command = inv[j].command
                    /\ inv[k].chat = inv[j].chat

\* the invocation in one chat still waits for a reply it never got, and the
\* one triggered after it in another chat has collected its argument and run
\* its execution callback
C27_Witness ==
  \E i, j \in Invs :
    /\ inv[i].pc = "wait" /\ inv[i].turn = "waiting" /\ inv[i].heard = 0
    /\ i < j /\ inv[j].chat # inv[i].chat
    /\ inv[j].settled # {} /\ inv[j].calls = 1

\* C30: a step that takes a lock key away changes no invocation, and a trigger
\* is ignored exactly when it finds the key of its command and chat present
C30_LockOnlyExpires ==
  [][/\ \A k \in lock : k \notin lock' => inv' = inv
     /\ \A i \in Invs :
          (inv[i].pc = "lockGet" /\ inv'[i].pc # "lockGet") =>
            (inv'[i].pc = "ignored" <=> commandLock(inv[i].command, inv[i].chat) \in lock)]_vars

\* the invocation has ended, its lock is still there, and a second trigger in
\* the same chat has been ignored
C30_Witness ==
  \E i, j \in Invs :
    /\ Left(i) /\ inv[i].dispatched
    /\ inv[j].pc = "ignored" /\ inv[j].command = inv[i].command /\ inv[j].chat = inv[i].chat
    /\ commandLock(inv[i].command, inv[i].chat) \in lock

C38_OneAnswerPerClick ==
  click.pc \in {"done", "escaped"} => click.alerts + click.acks = 1

\* C39: a definition that threw for its long query id is not in the registry,
\* and a click with that query id is answered 'Query not found' without a
\* callback
C39_RejectedDefinitionNotRegistered ==
  /\ \A q \in QueryIds : builders[q] = "threw" => q \notin DOMAIN queryCallbacks
  /\ (click.pc = "done" /\ click.command \in QueryIds /\ builders[click.command] = "threw") =>
       (click.alertMsg = "Query not found" /\ click.calls = 0)

C36_RequiredArgsDefined ==
  \A i \in Invs : (inv[i].pc = "exec" \/ inv[i].calls > 0) =>
    \A n \in 1..Len(Def(i).args) :
      LET a == Def(i).args[n] IN
      a.required =>
        /\ a.name \in DOMAIN inv[i].args
        /\ inv[i].args[a.name] # Undefined
        /\ \/ ParamsGet(inv[i].match.params, a.name).found /\ inv[i].match.has
           \/ \E t \in inv[i].settled : /\ inv[i].pending[t].name = a.name
                                        /\ inv[i].rejectedAt # t

C36_Witness ==
  \E i \in Invs : /\ inv[i].calls > 0
                  /\ inv[i].command = "report"
                  /\ inv[i].match.has
                  /\ DOMAIN inv[i].collected = {"full"}
                  /\ "limit" \notin DOMAIN inv[i].args
                  /\ inv[i].settled = {1, 2}

\* C32: a step in which a lock key goes away, or in which an invocation of
\* another chat is triggered, hears a message or moves on, leaves a waiting
\* turn waiting, with the same arguments collected, the same callback
\* registered and nothing heard
C32_OnlyOwnChatEndsTurn ==
  [][\A i \in Invs :
       (/\ inv[i].pc = "wait" /\ inv[i].turn = "waiting"
        /\ \/ \E k \in lock : k \notin lock'
           \/ \E j \in Invs \ {i} : inv'[j] # inv[j] /\ inv'[j].chat # inv[i].chat) =>
         /\ inv'[i].pc = "wait" /\ inv'[i].turn = "waiting"
         /\ inv'[i].idx = inv[i].idx /\ inv'[i].listen = inv[i].listen
         /\ inv'[i].result = inv[i].result /\ inv'[i].args = inv[i].args
         /\ inv'[i].heard = inv[i].heard /\ inv'[i].settled = inv[i].settled]_vars

\* the first conversation still waits for its reply, unheard and with its
\* lock key gone, after the conversation of the other chat was triggered, got
\* its reply and returned
C32_Witness ==
  \E i, j \in Invs :
    /\ inv[i].pc = "wait" /\ inv[i].turn = "waiting" /\ inv[i].heard = 0
    /\ commandLock(inv[i].command, inv[i].chat) \notin lock
    /\ i < j /\ inv[j].chat # inv[i].chat
    /\ inv[j].heard = 1 /\ inv[j].pc = "returned"

\* C34: no two invocations of one chat have a turn waiting for a reply with
\* its callback registered at the same time
C34_OneWaitingTurnPerChat ==
  \A i, j \in Invs :
    (/\ i # j
     /\ inv[i].pc = "wait" /\ inv[i].turn = "waiting" /\ inv[i].listen > 0
     /\ inv[j].pc = "wait" /\ inv[j].turn = "waiting" /\ inv[j].listen > 0) =>
      inv[i].chat # inv[j].chat

\* C35: no two downloads of one turn are in flight together, no download is in
\* flight for a turn that has completed, and an invocation has downloaded at
\* most one file for each of its file arguments that got a reply
C35_OneMessagePerArgument ==
  /\ \A d, e \in downloads : (d.i = e.i /\ d.n = e.n) => d.doc = e.doc
  /\ \A d \in downloads : d.n \notin inv[d.i].settled
  /\ \A i \in Invs :
       Cardinality(inv[i].downloaded) <=
         Cardinality({n \in 1..Len(inv[i].pending) :
                        inv[i].pending[n].type = "file" /\ n <= inv[i].heard})

\* C37: the path the finally block of an invocation has read and is about to
\* unlink is the path of a file this invocation downloaded
C37_UnlinksOwnFileOnly ==
  \A i \in Invs : inv[i].pc = "finUnlink" => inv[i].path \in inv[i].downloaded

\* C33: no setup hook is called more than once; when the sync has returned,
\* every declared setup hook has been called exactly once, also after failed
\* publications and with hooks that raised, and the list that was published
\* names every registered command
C33_SetupHooksOnce ==
  /\ \A c \in CommandNames : sync.hooks[c] <= 1
  /\ sync.pc = "done" =>
       /\ \A c \in CommandNames : sync.hooks[c] = IF c \in sync.setup THEN 1 ELSE 0
       /\ sync.published = commandOrder
       /\ sync.publishes = 1

====
